---- MODULE Spec2Model ----
(***************************************************************************)
(* Model of agent_for_unit4: the Wikipedia extractor (wiki.py,             *)
(* get_wiki_content / process_list_element), the shelve-backed key-value   *)
(* store (db.py, ShelveDB) and the tool that wires them (tools.py,         *)
(* WikiTool.forward / RetrieveCSVStorageTool.forward).                     *)
(*                                                                         *)
(* Markup is a sequence of element nodes in document (pre-)order; every    *)
(* node names its parent (0 = the document root).  A string is a sequence  *)
(* of symbols [c, n]: a word of node n, a placeholder {{table_n}}, a       *)
(* number n, or a punctuation / whitespace character.                      *)
(***************************************************************************)
EXTENDS Integers, Sequences, FiniteSets, TLC

VARIABLES
    pc,            \* position inside get_wiki_content
    soup,          \* wiki.py:91   the parsed markup (never modified)
    content_soup,  \* wiki.py:92   the working copy: replaced / decomposed nodes
    infoboxes,     \* wiki.py:102  result of the infobox find_all on soup
    wikitables,    \* wiki.py:109  result of the wikitable find_all on soup
    table_ids,     \* wiki.py:96   list of (table_id, table_html)
    table_index,   \* wiki.py:99   the next table number
    tables_dict,   \* wiki.py:95   table number -> parsed grid
    text_content,  \* wiki.py:155  emitted blocks
    content,       \* wiki.py:178  the prose
    files,         \* db.py:13     the storage directory: file name -> entries
    storage,       \* db.py:13     the ShelveDB instances (by db_name)
    hist,          \* db.py:27-44  calls made on the store, with their results
    last           \* tools.py     the last tool call and its outcome

extractVars == <<pc, soup, content_soup, infoboxes, wikitables, table_ids,
                 table_index, tables_dict, text_content, content>>
storeVars == <<files, storage, hist, last>>
vars == <<pc, soup, content_soup, infoboxes, wikitables, table_ids,
          table_index, tables_dict, text_content, content, files, storage, hist, last>>

----------------------------------------------------------------------------
(* Bounds *)

MaxNodes == 3
MaxOps == 4

----------------------------------------------------------------------------
(* Strings *)

Sym(c, n) == [c |-> c, n |-> n]
NL == Sym("\n", 0)
SP == Sym(" ", 0)
HASH == Sym("#", 0)
STAR == Sym("*", 0)
DOT == Sym(".", 0)
NUM(k) == Sym("num", k)
W(i) == Sym("word", i)
TOK(n) == Sym("{{table_N}}", n)

IsSpace(s) == s.c \in {" ", "\n"}

RECURSIVE LStrip(_)
LStrip(s) == IF s = <<>> THEN s
             ELSE IF IsSpace(Head(s)) THEN LStrip(Tail(s)) ELSE s

RECURSIVE RStrip(_)
RStrip(s) == IF s = <<>> THEN s
             ELSE IF IsSpace(s[Len(s)]) THEN RStrip(SubSeq(s, 1, Len(s) - 1)) ELSE s

strip(s) == RStrip(LStrip(s))

RECURSIVE Repeat(_, _)
Repeat(s, k) == IF k = 0 THEN <<>> ELSE s \o Repeat(s, k - 1)

RECURSIVE join(_, _)
join(sep, parts) ==
    IF parts = <<>> THEN <<>>
    ELSE IF Len(parts) = 1 THEN parts[1]
    ELSE parts[1] \o sep \o join(sep, Tail(parts))

RECURSIVE Sorted(_)
Sorted(S) == IF S = {} THEN <<>>
             ELSE LET m == CHOOSE x \in S : \A y \in S : x <= y
                  IN <<m>> \o Sorted(S \ {m})

----------------------------------------------------------------------------
(* Markup *)

Node(tag, cls, ok, txt) == [tag |-> tag, cls |-> cls, ok |-> ok, txt |-> txt]

\* the text a node holds itself, before its children
TextOf(d, i) ==
    IF d[i].txt = "word" THEN <<SP, W(i), SP>>
    ELSE IF d[i].txt = "blank" THEN <<SP>>
    ELSE <<>>

RECURSIVE Ancestors(_, _)
Ancestors(d, i) ==
    IF d[i].parent = 0 THEN {}
    ELSE {d[i].parent} \cup Ancestors(d, d[i].parent)

\* parent arrays of the forests whose node numbering is their pre-order
ParentArrays(n) ==
    {p \in [1..n -> 0..(n - 1)] :
        \A i \in 1..n :
            /\ p[i] < i
            /\ i > 1 /\ p[i] # 0 =>
                 LET d == [j \in 1..n |-> [parent |-> p[j]]]
                 IN p[i] \in {i - 1} \cup Ancestors(d, i - 1)}

\* the document of n nodes with the kinds k and the parents p
MakeDoc(n, k, p) ==
    [i \in 1..n |-> [tag |-> k[i].tag, cls |-> k[i].cls, ok |-> k[i].ok,
                     txt |-> k[i].txt, parent |-> p[i]]]

\* d is a document of at most MaxNodes nodes of the given kinds
IsDocOf(d, Kinds) ==
    \E n \in 0..MaxNodes :
        \E k \in [1..n -> Kinds], p \in ParentArrays(n) : d = MakeDoc(n, k, p)

----------------------------------------------------------------------------
(* The working copy of the markup (content_soup)                           *)
(* replaced[i] = N > 0: node i was replaced by the paragraph {{table_N}};  *)
(* removed: the nodes that were decomposed.                                *)

FreshCopy(d) == [replaced |-> [i \in 1..Len(d) |-> 0], removed |-> {}]

\* node i is still part of the tree of the working copy
Live(d, cs, i) ==
    /\ i \notin cs.removed
    /\ \A a \in Ancestors(d, i) : a \notin cs.removed /\ cs.replaced[a] = 0

\* the element standing at node i's place
Element(d, cs, i) ==
    IF cs.replaced[i] # 0 THEN Node("p", <<>>, FALSE, "token") ELSE
    Node(d[i].tag, d[i].cls, d[i].ok, d[i].txt)

Name(d, cs, i) == Element(d, cs, i).tag

ParentName(d, cs, i) ==
    IF d[i].parent = 0 THEN "[document]" ELSE Name(d, cs, d[i].parent)

OwnText(d, cs, i) ==
    IF cs.replaced[i] # 0 THEN <<TOK(cs.replaced[i])>> ELSE TextOf(d, i)

\* element.contents without the leading string
Kids(d, cs, i) ==
    IF cs.replaced[i] # 0 THEN <<>>
    ELSE Sorted({j \in 1..Len(d) : d[j].parent = i /\ j \notin cs.removed})

RECURSIVE get_text(_, _, _), TextOfAll(_, _, _)
get_text(d, cs, i) == OwnText(d, cs, i) \o TextOfAll(d, cs, Kids(d, cs, i))
TextOfAll(d, cs, s) ==
    IF s = <<>> THEN <<>>
    ELSE get_text(d, cs, Head(s)) \o TextOfAll(d, cs, Tail(s))

\* "infobox" in c, for the class tokens of the model
ContainsInfobox(c) == c \in {"infobox", "infobox-subbox"}

\* class_=lambda c: c and "infobox" in c
MatchesInfobox(e) ==
    e.tag = "table" /\ \E k \in 1..Len(e.cls) : ContainsInfobox(e.cls[k])

\* class_="wikitable"
MatchesWikitable(e) ==
    e.tag = "table" /\ \E k \in 1..Len(e.cls) : e.cls[k] = "wikitable"

DecorationNames == {"sup", "div.hatnote", "div.navbox", "span.mw-editsection"}

MatchesDecoration(e) == e.tag \in DecorationNames

BlockNames == {"h1", "h2", "h3", "h4", "h5", "h6", "p", "ul", "ol"}

MatchesBlock(e) == e.tag \in BlockNames

\* the filters get_wiki_content calls find_all with
Matches(filter, e) ==
    CASE filter = "infobox" -> MatchesInfobox(e)
      [] filter = "wikitable" -> MatchesWikitable(e)
      [] filter = "decoration" -> MatchesDecoration(e)
      [] filter = "block" -> MatchesBlock(e)

\* find_all: the matching elements of the tree, in document order
find_all(d, cs, filter) ==
    Sorted({i \in 1..Len(d) : Live(d, cs, i) /\ Matches(filter, Element(d, cs, i))})

----------------------------------------------------------------------------
(* process_list_element *)

IsList(name) == name \in {"ul", "ol"}

\* find_all(names, recursive=False) over the children s of one element
RECURSIVE ChildrenNamed(_, _, _, _)
ChildrenNamed(d, cs, s, names) ==
    IF s = <<>> THEN <<>>
    ELSE (IF Name(d, cs, Head(s)) \in names THEN <<Head(s)>> ELSE <<>>)
         \o ChildrenNamed(d, cs, Tail(s), names)

\* the contents whose name is not in names
RECURSIVE ChildrenNotNamed(_, _, _, _)
ChildrenNotNamed(d, cs, s, names) ==
    IF s = <<>> THEN <<>>
    ELSE (IF Name(d, cs, Head(s)) \notin names THEN <<Head(s)>> ELSE <<>>)
         \o ChildrenNotNamed(d, cs, Tail(s), names)

\* the item's text: its contents other than ul / ol, as text, stripped
ItemText(d, cs, li) ==
    strip(OwnText(d, cs, li)
          \o TextOfAll(d, cs, ChildrenNotNamed(d, cs, Kids(d, cs, li), {"ul", "ol"})))

Prefix(is_ordered, i, indent) ==
    Repeat(<<SP, SP>>, indent)
    \o (IF is_ordered THEN <<NUM(i + 1), DOT, SP>> ELSE <<STAR, SP>>)

RECURSIVE process_list_element(_, _, _, _), ItemsResult(_, _, _, _, _, _),
          NestedResult(_, _, _, _)
process_list_element(d, cs, list_element, indent) ==
    join(<<NL>>,
         ItemsResult(d, cs, ChildrenNamed(d, cs, Kids(d, cs, list_element), {"li"}),
                     0, Name(d, cs, list_element) = "ol", indent))
\* the entries appended to result by the items from the i-th (0-based) on
ItemsResult(d, cs, lis, i, is_ordered, indent) ==
    IF lis = <<>> THEN <<>>
    ELSE LET li == Head(lis)
             item_text == ItemText(d, cs, li)
         IN  (IF item_text # <<>>
              THEN <<Prefix(is_ordered, i, indent) \o item_text>> ELSE <<>>)
             \o NestedResult(d, cs, ChildrenNamed(d, cs, Kids(d, cs, li), {"ul", "ol"}),
                             indent)
             \o ItemsResult(d, cs, Tail(lis), i + 1, is_ordered, indent)
\* the entries appended to result by the lists nested directly in one item
NestedResult(d, cs, lists, indent) ==
    IF lists = <<>> THEN <<>>
    ELSE LET nested_content == process_list_element(d, cs, Head(lists), indent + 1)
         IN  (IF nested_content # <<>> THEN <<nested_content>> ELSE <<>>)
             \o NestedResult(d, cs, Tail(lists), indent)

----------------------------------------------------------------------------
(* get_wiki_content: block extraction *)

Level(name) ==
    CASE name = "h1" -> 1 [] name = "h2" -> 2 [] name = "h3" -> 3
      [] name = "h4" -> 4 [] name = "h5" -> 5 [] name = "h6" -> 6

HeadingBlock(level, heading_text) ==
    <<NL>> \o Repeat(<<HASH>>, level) \o <<SP>> \o heading_text

IsTopLevelList(d, cs, i) ==
    IsList(Name(d, cs, i)) /\ ParentName(d, cs, i) \notin {"li", "ul", "ol"}

\* what one element of the loop appends to text_content
BlockOf(d, cs, i) ==
    LET name == Name(d, cs, i)
        stripped == strip(get_text(d, cs, i))
    IN  IF name \in {"h1", "h2", "h3", "h4", "h5", "h6"}
        THEN IF stripped # <<>> THEN <<HeadingBlock(Level(name), stripped)>> ELSE <<>>
        ELSE IF name = "p"
        THEN IF stripped # <<>> THEN <<stripped>> ELSE <<>>
        ELSE IF IsTopLevelList(d, cs, i)
        THEN LET list_content == process_list_element(d, cs, i, 0)
             IN  IF list_content # <<>> THEN <<list_content>> ELSE <<>>
        ELSE <<>>

RECURSIVE BlocksOf(_, _, _)
BlocksOf(d, cs, elements) ==
    IF elements = <<>> THEN <<>>
    ELSE BlockOf(d, cs, Head(elements)) \o BlocksOf(d, cs, Tail(elements))

\* blocks separated by a line break only
JoinBlocksSingleNewline(blocks) == join(<<NL>>, blocks)

JoinBlocks(blocks) == join(<<NL, NL>>, blocks)

----------------------------------------------------------------------------
(* get_wiki_content: tables *)

\* numbering that restarts at 1 in every discovery loop
NumberTablesRestart(tables, index) ==
    [k \in 1..Len(tables) |-> [id |-> k, html |-> tables[k]]]

\* the (table_id, table_html) pairs one discovery loop appends
RECURSIVE NumberTables(_, _)
NumberTables(tables, index) ==
    IF tables = <<>> THEN <<>>
    ELSE <<[id |-> index, html |-> Head(tables)]>>
         \o NumberTables(Tail(tables), index + 1)

\* pd.read_html succeeds on the table and returns at least one frame
Parses(d, html) == d[html].ok

ParsedTables(d, ids) ==
    LET good == {k \in 1..Len(ids) : Parses(d, ids[k].html)}
    IN  [n \in {ids[k].id : k \in good} |->
            ids[CHOOSE k \in good : ids[k].id = n].html]

\* substitution that does not look the table up in tables_dict
SubstituteUnguarded(table_id, dict) == TRUE

SubstituteGuard(table_id, dict) == table_id \in DOMAIN dict

\* one substitution loop over the tables found in the working copy;
\* the i-th table found (0-based) is taken for table_{start + i}
Substitute(cs, found, start, dict) ==
    [cs EXCEPT !.replaced =
        [j \in DOMAIN cs.replaced |->
            IF \E i \in 1..Len(found) :
                   found[i] = j /\ SubstituteGuard(start + i - 1, dict)
            THEN start + (CHOOSE i \in 1..Len(found) : found[i] = j) - 1
            ELSE cs.replaced[j]]]

Decompose(d, cs) ==
    [cs EXCEPT !.removed = cs.removed \cup
        {find_all(d, cs, "decoration")[k] :
             k \in 1..Len(find_all(d, cs, "decoration"))}]

----------------------------------------------------------------------------
(* get_wiki_content: the steps *)

FindInfoboxes ==
    /\ pc = "infoboxes"
    /\ infoboxes' = find_all(soup, FreshCopy(soup), "infobox")
    /\ table_ids' = table_ids \o NumberTables(infoboxes', table_index)
    /\ table_index' = table_index + Len(infoboxes')
    /\ pc' = "wikitables"
    /\ UNCHANGED <<soup, content_soup, wikitables, tables_dict, text_content, content>>
    /\ UNCHANGED storeVars

FindWikitables ==
    /\ pc = "wikitables"
    /\ wikitables' = find_all(soup, FreshCopy(soup), "wikitable")
    /\ table_ids' = table_ids \o NumberTables(wikitables', table_index)
    /\ table_index' = table_index + Len(wikitables')
    /\ pc' = "parse"
    /\ UNCHANGED <<soup, content_soup, infoboxes, tables_dict, text_content, content>>
    /\ UNCHANGED storeVars

ParseTables ==
    /\ pc = "parse"
    /\ tables_dict' = ParsedTables(soup, table_ids)
    /\ pc' = "substitute_infoboxes"
    /\ UNCHANGED <<soup, content_soup, infoboxes, wikitables, table_ids, table_index,
                   text_content, content>>
    /\ UNCHANGED storeVars

SubstituteInfoboxes ==
    /\ pc = "substitute_infoboxes"
    /\ content_soup' = Substitute(content_soup,
                                  find_all(soup, content_soup, "infobox"),
                                  1, tables_dict)
    /\ pc' = "substitute_wikitables"
    /\ UNCHANGED <<soup, infoboxes, wikitables, table_ids, table_index, tables_dict,
                   text_content, content>>
    /\ UNCHANGED storeVars

SubstituteWikitables ==
    /\ pc = "substitute_wikitables"
    /\ LET wikitable_start_index == Len(infoboxes) + 1
       IN  content_soup' = Substitute(content_soup,
                                      find_all(soup, content_soup, "wikitable"),
                                      wikitable_start_index, tables_dict)
    /\ pc' = "decorations"
    /\ UNCHANGED <<soup, infoboxes, wikitables, table_ids, table_index, tables_dict,
                   text_content, content>>
    /\ UNCHANGED storeVars

RemoveDecorations ==
    /\ pc = "decorations"
    /\ content_soup' = Decompose(soup, content_soup)
    /\ pc' = "blocks"
    /\ UNCHANGED <<soup, infoboxes, wikitables, table_ids, table_index, tables_dict,
                   text_content, content>>
    /\ UNCHANGED storeVars

ExtractBlocks ==
    /\ pc = "blocks"
    /\ text_content' = BlocksOf(soup, content_soup,
                                find_all(soup, content_soup, "block"))
    /\ pc' = "join"
    /\ UNCHANGED <<soup, content_soup, infoboxes, wikitables, table_ids, table_index,
                   tables_dict, content>>
    /\ UNCHANGED storeVars

JoinContent ==
    /\ pc = "join"
    /\ content' = JoinBlocks(text_content)
    /\ pc' = "done"
    /\ UNCHANGED <<soup, content_soup, infoboxes, wikitables, table_ids, table_index,
                   tables_dict, text_content>>
    /\ UNCHANGED storeVars

NextExtract ==
    \/ FindInfoboxes
    \/ FindWikitables
    \/ ParseTables
    \/ SubstituteInfoboxes
    \/ SubstituteWikitables
    \/ RemoveDecorations
    \/ ExtractBlocks
    \/ JoinContent

StoreIdle ==
    /\ files = <<>>
    /\ storage = {}
    /\ hist = <<>>
    /\ last = [op |-> "none", db_name |-> <<>>, key |-> "None", value |-> "None",
               result |-> "None"]

InitExtract(Kinds, Examples) ==
    /\ pc = "infoboxes"
    /\ IsDocOf(soup, Kinds) \/ soup \in Examples
    /\ content_soup = FreshCopy(soup)
    /\ infoboxes = <<>>
    /\ wikitables = <<>>
    /\ table_ids = <<>>
    /\ table_index = 1
    /\ tables_dict = <<>>
    /\ text_content = <<>>
    /\ content = <<>>
    /\ StoreIdle

----------------------------------------------------------------------------
(* Documents with tables of both kinds *)

TableKinds ==
    {Node("table", <<"infobox">>, TRUE, "none"),
     Node("table", <<"infobox">>, FALSE, "none"),
     Node("table", <<"wikitable">>, TRUE, "none"),
     Node("table", <<"wikitable">>, FALSE, "none"),
     Node("table", <<"infobox", "wikitable">>, TRUE, "none"),
     Node("p", <<>>, FALSE, "word")}

InitTables == InitExtract(TableKinds, {})

SpecTables == InitTables /\ [][NextExtract]_vars

----------------------------------------------------------------------------
(* Properties of the table numbering and of the placeholders *)

InfoTables == {i \in 1..Len(soup) : MatchesInfobox(soup[i])}
GeneralTables == {i \in 1..Len(soup) : MatchesWikitable(soup[i])}

\* 1-based position of i among the members of S, in document order
Rank(S, i) == Cardinality({j \in S : j < i}) + 1

Count(sym, s) == Cardinality({k \in 1..Len(s) : s[k] = sym})

Tokens(s) == {s[k].n : k \in {j \in 1..Len(s) : s[j].c = "{{table_N}}"}}

PlaceholderOncePerTable ==
    pc = "done" =>
        \A N \in DOMAIN tables_dict :
            /\ Count(TOK(N), content) = 1
            /\ \E k \in 1..Len(text_content) : text_content[k] = <<TOK(N)>>
            /\ content_soup.replaced[tables_dict[N]] = N
            /\ Live(soup, content_soup, tables_dict[N])
            /\ \A M \in DOMAIN tables_dict : M # N => tables_dict[M] # tables_dict[N]

\* C5: the mapping holds exactly the tables that parse, under the number
\* their place in the two-pass order gives them (failed tables counted),
\* and every placeholder of the prose is a key of the mapping.
NoDanglingPlaceholder ==
    pc = "done" =>
        LET nInfo == Cardinality(InfoTables)
        IN  /\ DOMAIN tables_dict =
                   {table_ids[k].id :
                        k \in {j \in 1..Len(table_ids) : soup[table_ids[j].html].ok}}
            /\ Tokens(content) \subseteq DOMAIN tables_dict
            /\ \A N \in DOMAIN tables_dict :
                   LET t == tables_dict[N]
                   IN  /\ soup[t].ok
                       /\ N <= nInfo => t \in InfoTables /\ N = Rank(InfoTables, t)
                       /\ N > nInfo =>
                              t \in GeneralTables /\ N = nInfo + Rank(GeneralTables, t)

\* a table that fails to parse is followed by one that parses and whose
\* placeholder is in the prose under its unchanged number
NoDanglingPlaceholderWitness ==
    /\ pc = "done"
    /\ \E k1, k2 \in 1..Len(table_ids) :
           /\ k1 < k2
           /\ ~soup[table_ids[k1].html].ok
           /\ soup[table_ids[k2].html].ok
           /\ k1 \notin DOMAIN tables_dict
           /\ k2 \in Tokens(content)
           /\ content_soup.replaced[table_ids[k2].html] = k2

----------------------------------------------------------------------------
(* ShelveDB (db.py) and WikiTool.forward (tools.py)                        *)
(* A file name is a sequence of characters; files maps the names of the    *)
(* files of dir_path to the entries (key -> value) of the shelf they hold. *)

TableNames == {<<"w", "i", "k", "i">>, <<"w", "i", "k", "i", "2">>, <<"w", "e", "b">>}
Keys == {"table_1", "table_2"}
Values == {"X", "Z"}
None == "None"

\* the mappings key -> value over a subset of Keys
Mappings == UNION {[ks -> Values] : ks \in SUBSET Keys}

\* the file shelve.open(str(db_path)) keeps the shelf in (a dbm that
\* names its file by the path it is given)
FileOf(db_name) == db_name

\* the entries of the shelf of db_name (none when its file does not exist)
Entries(fs, db_name) ==
    IF FileOf(db_name) \in DOMAIN fs THEN fs[FileOf(db_name)] ELSE <<>>

IsPrefix(a, b) == Len(a) <= Len(b) /\ SubSeq(b, 1, Len(a)) = a

\* dir_path.glob(f"{db_name}*")
Glob(fs, db_name) == {f \in DOMAIN fs : IsPrefix(db_name, f)}

Unlink(fs, gone) == [f \in DOMAIN fs \ gone |-> fs[f]]

\* shelve.open(str(db_path)): the shelf is created when it does not exist
WriteShelf(fs, db_name, db) ==
    [f \in DOMAIN fs \cup {FileOf(db_name)} |->
        IF f = FileOf(db_name) THEN db ELSE fs[f]]

\* a save that keeps the value a key already has
SetItemIfAbsent(db, key, value) ==
    [k \in DOMAIN db \cup {key} |-> IF k \in DOMAIN db THEN db[k] ELSE value]

\* db[key] = value
SetItem(db, key, value) ==
    [k \in DOMAIN db \cup {key} |-> IF k = key THEN value ELSE db[k]]

\* del db[key]
DelItem(db, key) == [k \in DOMAIN db \ {key} |-> db[k]]

\* db.get(key, None)
GetItem(db, key) == IF key \in DOMAIN db THEN db[key] ELSE None

ShelveDBMethods == {"__init__", "from_table", "save", "fetch", "delete", "list_keys"}

\* ShelveDB.__init__(db_name, init)
Open(db_name, init) ==
    /\ storage' = storage \cup {db_name}
    /\ files' = IF init THEN Unlink(files, Glob(files, db_name)) ELSE files
    /\ last' = [op |-> "__init__", db_name |-> db_name, key |-> None,
                value |-> None, result |-> None]

\* ShelveDB.save(key, value)
save(db_name, key, value) ==
    /\ db_name \in storage
    /\ files' = WriteShelf(files, db_name, SetItem(Entries(files, db_name), key, value))
    /\ last' = [op |-> "save", db_name |-> db_name, key |-> key,
                value |-> value, result |-> None]
    /\ UNCHANGED storage

\* ShelveDB.fetch(key)
fetch(db_name, key) ==
    /\ db_name \in storage
    /\ files' = WriteShelf(files, db_name, Entries(files, db_name))
    /\ last' = [op |-> "fetch", db_name |-> db_name, key |-> key,
                value |-> None, result |-> GetItem(Entries(files, db_name), key)]
    /\ UNCHANGED storage

DeleteResult(db, key) == key \in DOMAIN db

\* ShelveDB.delete(key)
delete(db_name, key) ==
    /\ db_name \in storage
    /\ files' = WriteShelf(files, db_name,
                           IF key \in DOMAIN Entries(files, db_name)
                           THEN DelItem(Entries(files, db_name), key)
                           ELSE Entries(files, db_name))
    /\ last' = [op |-> "delete", db_name |-> db_name, key |-> key,
                value |-> None,
                result |-> DeleteResult(Entries(files, db_name), key)]
    /\ UNCHANGED storage

\* ShelveDB.list_keys()
list_keys(db_name) ==
    /\ db_name \in storage
    /\ files' = WriteShelf(files, db_name, Entries(files, db_name))
    /\ last' = [op |-> "list_keys", db_name |-> db_name, key |-> None,
                value |-> None, result |-> DOMAIN Entries(files, db_name)]
    /\ UNCHANGED storage

\* WikiTool.forward: get_wiki_content returns tables, then
\* self.storage.clear() is looked up on a ShelveDB, which has no such
\* method: AttributeError, before anything is saved
forward(db_name, tables) ==
    /\ db_name \in storage
    /\ "clear" \notin ShelveDBMethods
    /\ last' = [op |-> "forward", db_name |-> db_name, key |-> None,
                value |-> tables, result |-> "AttributeError"]
    /\ UNCHANGED <<files, storage>>

ExtractIdle ==
    /\ pc = "idle"
    /\ soup = <<>>
    /\ content_soup = FreshCopy(<<>>)
    /\ infoboxes = <<>>
    /\ wikitables = <<>>
    /\ table_ids = <<>>
    /\ table_index = 1
    /\ tables_dict = <<>>
    /\ text_content = <<>>
    /\ content = <<>>

InitStore ==
    /\ StoreIdle
    /\ ExtractIdle

Init == InitStore

Construct ==
    /\ \E db_name \in TableNames, init \in BOOLEAN : Open(db_name, init)
    /\ UNCHANGED hist /\ UNCHANGED extractVars

Save ==
    /\ \E db_name \in TableNames, key \in Keys, value \in Values : save(db_name, key, value)
    /\ UNCHANGED hist /\ UNCHANGED extractVars

Fetch ==
    /\ \E db_name \in TableNames, key \in Keys : fetch(db_name, key)
    /\ UNCHANGED hist /\ UNCHANGED extractVars

Delete ==
    /\ \E db_name \in TableNames, key \in Keys : delete(db_name, key)
    /\ UNCHANGED hist /\ UNCHANGED extractVars

ListKeys ==
    /\ \E db_name \in TableNames : list_keys(db_name)
    /\ UNCHANGED hist /\ UNCHANGED extractVars

Forward ==
    /\ \E db_name \in TableNames, tables \in Mappings : forward(db_name, tables)
    /\ UNCHANGED hist /\ UNCHANGED extractVars

Next ==
    \/ Construct
    \/ Save
    \/ Fetch
    \/ Delete
    \/ ListKeys
    \/ Forward

Spec == Init /\ [][Next]_vars

----------------------------------------------------------------------------
(* One opened store and the history of the calls made on it *)

Wiki == <<"w", "i", "k", "i">>

InitKV ==
    /\ files = <<>>
    /\ storage = {Wiki}
    /\ hist = <<>>
    /\ last = [op |-> "none", db_name |-> <<>>, key |-> None, value |-> None,
               result |-> None]
    /\ ExtractIdle

Put ==
    /\ Len(hist) < MaxOps
    /\ \E key \in Keys, value \in Values : save(Wiki, key, value)
    /\ hist' = Append(hist, last')
    /\ UNCHANGED extractVars

Get ==
    /\ Len(hist) < MaxOps
    /\ \E key \in Keys : fetch(Wiki, key)
    /\ hist' = Append(hist, last')
    /\ UNCHANGED extractVars

Del ==
    /\ Len(hist) < MaxOps
    /\ \E key \in Keys : delete(Wiki, key)
    /\ hist' = Append(hist, last')
    /\ UNCHANGED extractVars

List ==
    /\ Len(hist) < MaxOps
    /\ list_keys(Wiki)
    /\ hist' = Append(hist, last')
    /\ UNCHANGED extractVars

NextKV ==
    \/ Put
    \/ Get
    \/ Del
    \/ List

SpecKV == InitKV /\ [][NextKV]_vars

----------------------------------------------------------------------------
(* Properties of the store *)

\* the value the calls of h leave under key: that of the last save of key
\* that no delete of key follows
LastWrite(h, key) ==
    LET writes == {j \in 1..Len(h) : h[j].key = key /\ h[j].op \in {"save", "delete"}}
    IN  IF writes = {} THEN None
        ELSE LET m == CHOOSE j \in writes : \A i \in writes : i <= j
             IN  IF h[m].op = "save" THEN h[m].value ELSE None

\* C1: after WikiTool.forward the store holds exactly the entries of the
\* mapping the extraction returned.
ClearAndReplaceHoldsMapping ==
    last.op = "forward" => Entries(files, last.db_name) = last.value

\* C8: a fetch returns the value of the last save of its key that no
\* delete of the key follows, and None when there is none; a delete
\* returns TRUE exactly when the key was present; list_keys returns the
\* keys that are present.
LastWriteWins ==
    \A k \in 1..Len(hist) :
        LET before == SubSeq(hist, 1, k - 1)
        IN  /\ hist[k].op = "fetch" => hist[k].result = LastWrite(before, hist[k].key)
            /\ hist[k].op = "delete" =>
                   hist[k].result = (LastWrite(before, hist[k].key) # None)
            /\ hist[k].op = "list_keys" =>
                   hist[k].result = {key \in Keys : LastWrite(before, key) # None}

\* a key is saved twice, fetched, deleted and fetched again
LastWriteWinsWitness ==
    \E key \in Keys :
        /\ Len(hist) >= 4
        /\ hist[1].op = "save" /\ hist[1].key = key /\ hist[1].value = "X"
        /\ hist[2].op = "save" /\ hist[2].key = key /\ hist[2].value = "Z"
        /\ hist[3].op = "delete" /\ hist[3].key = key /\ hist[3].result = TRUE
        /\ hist[4].op = "fetch" /\ hist[4].key = key /\ hist[4].result = None

\* C10: constructing ShelveDB(A, init = True) leaves table A without
\* entries and the entries of every other table B as they were.
InitRemovesOnlyOwnTable ==
    [][\A A \in TableNames :
           Open(A, TRUE) =>
               /\ Entries(files', A) = <<>>
               /\ \A B \in TableNames \ {A} : Entries(files', B) = Entries(files, B)]_vars

----------------------------------------------------------------------------
(* Documents of headings, paragraphs, lists and one kind of table *)

BlockKinds ==
    {Node("h1", <<>>, FALSE, "word"),
     Node("h2", <<>>, FALSE, "word"),
     Node("p", <<>>, FALSE, "word"),
     Node("p", <<>>, FALSE, "blank"),
     Node("ul", <<>>, FALSE, "none"),
     Node("ol", <<>>, FALSE, "none"),
     Node("li", <<>>, FALSE, "word"),
     Node("table", <<"wikitable">>, TRUE, "none")}

At(node, parent) ==
    [tag |-> node.tag, cls |-> node.cls, ok |-> node.ok, txt |-> node.txt,
     parent |-> parent]

\* <h1>Title</h1><p>Some text.</p><table class="wikitable">..</table>
\* <ul><li>a</li><li>b</li></ul>
ExampleDoc ==
    <<At(Node("h1", <<>>, FALSE, "word"), 0),
      At(Node("p", <<>>, FALSE, "word"), 0),
      At(Node("table", <<"wikitable">>, TRUE, "none"), 0),
      At(Node("ul", <<>>, FALSE, "none"), 0),
      At(Node("li", <<>>, FALSE, "word"), 4),
      At(Node("li", <<>>, FALSE, "word"), 4)>>

\* <ol><li>item1</li><li>item2<ul><li>suba</li><li>subb</li></ul></li></ol>
NestedListDoc ==
    <<At(Node("ol", <<>>, FALSE, "none"), 0),
      At(Node("li", <<>>, FALSE, "word"), 1),
      At(Node("li", <<>>, FALSE, "word"), 1),
      At(Node("ul", <<>>, FALSE, "none"), 3),
      At(Node("li", <<>>, FALSE, "word"), 4),
      At(Node("li", <<>>, FALSE, "word"), 4)>>

InitBlocks == InitExtract(BlockKinds, {ExampleDoc, NestedListDoc})

SpecBlocks == InitBlocks /\ [][NextExtract]_vars

----------------------------------------------------------------------------
(* Documents with decoration nodes and wrapped lists *)

MarkupKinds ==
    {Node("h2", <<>>, FALSE, "word"),
     Node("p", <<>>, FALSE, "word"),
     Node("ul", <<>>, FALSE, "none"),
     Node("ol", <<>>, FALSE, "none"),
     Node("li", <<>>, FALSE, "word"),
     Node("div", <<>>, FALSE, "none"),
     Node("div", <<"navbox">>, FALSE, "none"),
     Node("div", <<"hatnote">>, FALSE, "word"),
     Node("span", <<"mw-editsection">>, FALSE, "word"),
     Node("sup", <<"reference">>, FALSE, "word"),
     Node("table", <<"wikitable">>, TRUE, "none")}

\* markup as a browser would accept it: list items are the children of
\* lists, and headings and paragraphs hold inline elements only
WellFormed(d) ==
    \A i \in 1..Len(d) :
        LET parentTag == IF d[i].parent = 0 THEN "[document]" ELSE d[d[i].parent].tag
        IN  /\ (d[i].tag = "li") <=> (parentTag \in {"ul", "ol"})
            /\ parentTag \in {"h2", "p", "span", "sup"} => d[i].tag \in {"span", "sup"}

\* <ul><li>a<div><ul><li>b</li></ul></div></li></ul>
WrappedListDoc ==
    <<At(Node("ul", <<>>, FALSE, "none"), 0),
      At(Node("li", <<>>, FALSE, "word"), 1),
      At(Node("div", <<>>, FALSE, "none"), 2),
      At(Node("ul", <<>>, FALSE, "none"), 3),
      At(Node("li", <<>>, FALSE, "word"), 4)>>

InitMarkup ==
    InitExtract(MarkupKinds, {WrappedListDoc}) /\ WellFormed(soup)

SpecMarkup == InitMarkup /\ [][NextExtract]_vars

----------------------------------------------------------------------------
(* Properties of the prose *)

\* r is t without its leading and trailing whitespace, and is not empty
Trimmed(t, r) ==
    /\ r # <<>>
    /\ ~IsSpace(r[1]) /\ ~IsSpace(r[Len(r)])
    /\ \E a \in 0..Len(t) :
           /\ a + Len(r) <= Len(t)
           /\ SubSeq(t, a + 1, a + Len(r)) = r
           /\ \A k \in 1..a : IsSpace(t[k])
           /\ \A k \in (a + Len(r) + 1)..Len(t) : IsSpace(t[k])

AllSpace(t) == \A k \in 1..Len(t) : IsSpace(t[k])

\* the text of node i and of everything below it in the working copy
VisibleText(i) == get_text(soup, content_soup, i)

InTree(i) == Live(soup, content_soup, i)

IsHeading(i) ==
    content_soup.replaced[i] = 0 /\ soup[i].tag \in {"h1", "h2", "h3", "h4", "h5", "h6"}
IsParagraph(i) == content_soup.replaced[i] # 0 \/ soup[i].tag = "p"
IsListNode(i) == content_soup.replaced[i] = 0 /\ soup[i].tag \in {"ul", "ol"}
IsItem(i) == content_soup.replaced[i] = 0 /\ soup[i].tag = "li"

\* the nodes that give a block: headings and paragraphs with visible text,
\* and lists outside of lists with at least one item that has text
Emitting ==
    {i \in 1..Len(soup) :
        /\ InTree(i)
        /\ \/ (IsHeading(i) \/ IsParagraph(i)) /\ ~AllSpace(VisibleText(i))
           \/ /\ IsListNode(i)
              /\ soup[i].parent # 0 =>
                     ~IsItem(soup[i].parent) /\ ~IsListNode(soup[i].parent)
              /\ \E j \in 1..Len(soup) :
                     soup[j].parent = i /\ IsItem(j) /\ ~AllSpace(VisibleText(j))}

RECURSIVE Offset(_, _)
Offset(blocks, k) ==
    IF k = 1 THEN 0 ELSE Offset(blocks, k - 1) + Len(blocks[k - 1]) + 2

\* s is the blocks in order with exactly two newlines between neighbours
JoinedByBlankLine(s, blocks) ==
    /\ blocks = <<>> => s = <<>>
    /\ blocks # <<>> =>
           Len(s) = Offset(blocks, Len(blocks)) + Len(blocks[Len(blocks)])
    /\ \A k \in 1..Len(blocks) :
           /\ SubSeq(s, Offset(blocks, k) + 1, Offset(blocks, k) + Len(blocks[k]))
                  = blocks[k]
           /\ k > 1 => /\ s[Offset(blocks, k) - 1] = NL
                       /\ s[Offset(blocks, k)] = NL

Hashes(block, from, level) ==
    /\ Len(block) >= from + level
    /\ \A k \in from..(from + level - 1) : block[k] = HASH
    /\ block[from + level] = SP

ExampleProse(before) ==
    before \o <<HASH, SP, W(1), NL, NL, W(2), NL, NL, TOK(1), NL, NL,
                STAR, SP, W(5), NL, STAR, SP, W(6)>>

NestedListProse ==
    <<NUM(1), DOT, SP, W(2), NL, NUM(2), DOT, SP, W(3), NL,
      SP, SP, STAR, SP, W(5), NL, SP, SP, STAR, SP, W(6)>>

\* the prose is the blocks of the emitting nodes, in document order, joined
\* by a blank line; a heading block is `before`, level times "#", a space
\* and the trimmed text; a paragraph block is its trimmed text
ProseIsBlocks(before) ==
    pc = "done" =>
        LET order == Sorted(Emitting)
        IN  /\ Len(text_content) = Len(order)
            /\ JoinedByBlankLine(content, text_content)
            /\ \A k \in 1..Len(order) :
                   LET i == order[k]
                       block == text_content[k]
                   IN  /\ IsHeading(i) =>
                              /\ SubSeq(block, 1, Len(before)) = before
                              /\ Hashes(block, Len(before) + 1, Level(soup[i].tag))
                              /\ Trimmed(VisibleText(i),
                                         SubSeq(block,
                                                Len(before) + Level(soup[i].tag) + 2,
                                                Len(block)))
                       /\ IsParagraph(i) => Trimmed(VisibleText(i), block)
                       /\ IsListNode(i) =>
                              block[1] \in {STAR, NUM(1), NUM(2), NUM(3), NUM(4)}
            /\ soup = ExampleDoc =>
                   content = ExampleProse(before) /\ DOMAIN tables_dict = {1}
            /\ soup = NestedListDoc => content = NestedListProse

\* C7 (as amended): the prose is the emitted blocks in document order joined
\* by one blank line, where a heading block is a newline, level times "#",
\* a space and the trimmed text, a paragraph block is its trimmed text and a
\* list block is its rendered list; the example document yields
\* "\n# Title\n\nSome text.\n\n{{table_1}}\n\n* a\n* b" and the key table_1.
ProseIsJoinedBlocks == ProseIsBlocks(<<NL>>)

\* C7 (as claimed): the same with nothing before the "#" of a heading block,
\* the example yielding "# Title\n\nSome text.\n\n{{table_1}}\n\n* a\n* b".
ProseIsJoinedBlocksBareHeading == ProseIsBlocks(<<>>)

\* the example document has been rendered
ProseIsJoinedBlocksWitness ==
    /\ pc = "done"
    /\ soup = ExampleDoc
    /\ Len(text_content) = 4
    /\ content # <<>>

IsDecoration(node) ==
    \/ node.tag = "sup"
    \/ node.tag = "div" /\ \E k \in 1..Len(node.cls) : node.cls[k] \in {"hatnote", "navbox"}
    \/ node.tag = "span" /\ \E k \in 1..Len(node.cls) : node.cls[k] = "mw-editsection"

\* C6: no heading, paragraph or list item inside a footnote marker, hatnote
\* box, navigation box or section-edit affordance contributes text to the
\* prose.
DecorationsContributeNoText ==
    pc = "done" =>
        \A i \in 1..Len(soup) :
            /\ soup[i].tag \in {"h1", "h2", "h3", "h4", "h5", "h6", "p", "li"}
            /\ \E a \in Ancestors(soup, i) : IsDecoration(soup[a])
            => Count(W(i), content) = 0

\* the nodes below i that are not inside a list nested in i
RECURSIVE OwnNodes(_)
OwnNodes(i) ==
    {i} \cup UNION {OwnNodes(j) :
                        j \in {c \in 1..Len(soup) :
                                   soup[c].parent = i /\ soup[c].tag \notin {"ul", "ol"}}}

\* the items of the lists nested (at any depth) in item i
NestedItems(i) ==
    {j \in 1..Len(soup) : soup[j].tag = "li" /\ i \in Ancestors(soup, j)}

SameLine(s, a, b) ==
    \E x, y \in 1..Len(s) :
        /\ s[x] = a /\ s[y] = b
        /\ \A z \in 1..Len(s) : (x < z /\ z < y) \/ (y < z /\ z < x) => s[z] # NL

\* C9: every list item's own text is in the prose exactly once, and the
\* line of an item holds no text of the lists nested in it.
ListItemsRenderedOnce ==
    pc = "done" =>
        \A i \in 1..Len(soup) :
            soup[i].tag = "li" /\ InTree(i) =>
                /\ \A j \in OwnNodes(i) :
                       soup[j].txt = "word" /\ InTree(j) => Count(W(j), content) = 1
                /\ \A j \in NestedItems(i) : ~SameLine(content, W(i), W(j))

====
